---- MODULE Spec2Model ----
(***************************************************************************)
(* Model of nwoltman/auction-challenge.                                    *)
(*                                                                         *)
(*   src/src/auction.rs         get_winning_bids, is_valid_bid,            *)
(*                              serialize_float                            *)
(*   src/src/auction_config.rs  Config, SiteConfig                         *)
(*   src/src/main.rs            the decoder thread (AuctionProcessor), the *)
(*                              mpsc channel and main's encoder loop       *)
(*                                                                         *)
(* The program is entered in three ways, and Init draws one of them:       *)
(*   - main (main.rs): the two-thread pipeline over one input stream;      *)
(*   - a direct call of get_winning_bids on one auction, as the unit tests *)
(*     of auction.rs make it;                                              *)
(*   - a direct call of serialize_float on one f64.                        *)
(*                                                                         *)
(* Prices, adjustments and floors are f64 in the source.  In the resolver  *)
(* they are integers counting halves (3 is 1.5): on such small dyadic      *)
(* values the f64 sum and comparisons of the source are exact.  Where the  *)
(* width matters (serialize_float) an f64 is its sign and the set of its   *)
(* binary digit positions.                                                 *)
(***************************************************************************)
EXTENDS Integers, Sequences, FiniteSets

VARIABLES
    input,        \* the bytes on stdin, as what the decoder will find in them
    next_index,   \* how many elements the decoder thread has decoded
    pc_d,         \* decoder thread: "start", "next", "done", "panicked"
    decode_failed,\* history: a decode error has happened
    channel,      \* mpsc::channel(): sent and not yet received auctions
    held,         \* main's loop variable `auction`: <<>> or <<auction>>
    pc_m,         \* main thread: "NotStarted", "StreamOpen", "EncodeElement",
                  \*              "StreamClosed", "Failed", ("idle": no main)
    output,       \* the elements written to stdout, in order
    auction,      \* direct call: the argument of get_winning_bids
    winning_bids, \* direct call: its result
    pc_r,         \* direct call: "idle", "call", "returned"
    f,            \* direct call: the argument of serialize_float
    literal,      \* direct call: the literal it wrote
    pc_f          \* direct call: "idle", "call", "written"

vars == <<input, next_index, pc_d, decode_failed, channel, held, pc_m, output,
          auction, winning_bids, pc_r, f, literal, pc_f>>

pipeline_vars == <<input, next_index, pc_d, decode_failed, channel, held, pc_m, output>>
resolver_vars == <<auction, winning_bids, pc_r>>
float_vars == <<f, literal, pc_f>>

(***************************************************************************)
(* Bounds.                                                                 *)
(***************************************************************************)
MaxBids == 2      \* bids in one auction
MaxInput == 2     \* elements in the input array

(***************************************************************************)
(* Strings that are ordered (ad unit identifiers) are sequences of byte    *)
(* values; Rust's Ord for String is the lexicographic order of the bytes.  *)
(***************************************************************************)
unit_a == <<97>>
unit_ab == <<97, 98>>
unit_b == <<98>>
UnitIds == {unit_a, unit_ab, unit_b}

RECURSIVE LexLess(_, _)
LexLess(s, t) ==
    IF t = <<>> THEN FALSE
    ELSE IF s = <<>> THEN TRUE
    ELSE IF s[1] < t[1] THEN TRUE
    ELSE IF s[1] > t[1] THEN FALSE
    ELSE LexLess(Tail(s), Tail(t))

Range(s) == {s[i] : i \in DOMAIN s}

(***************************************************************************)
(* The configuration snapshot (auction_config.rs).  Two sites.  On the     *)
(* first AUCT and BIDD may bid and are adjusted, NOADJ may bid but has no  *)
(* adjustment, and EXTRA has an adjustment but may not bid; the second has *)
(* a higher floor, which only EXTRA's raised bid of 5 meets.               *)
(***************************************************************************)
Bidders == {"AUCT", "BIDD", "NOADJ", "EXTRA"}
Sites == {"houseofcheese.com", "expensive.com", "unknown.com"}
Prices == {4, 5}

SiteConfig(bidders, floor) == [bidders |-> bidders, floor |-> floor]

Config ==
    [sites |-> [s \in {"houseofcheese.com", "expensive.com"} |->
                    IF s = "houseofcheese.com"
                    THEN SiteConfig({"AUCT", "BIDD", "NOADJ"}, 4)
                    ELSE SiteConfig({"BIDD", "EXTRA"}, 6)],
     bidder_adjustments |->
        [b \in {"AUCT", "BIDD", "EXTRA"} |->
            IF b = "AUCT" THEN -1 ELSE IF b = "BIDD" THEN 0 ELSE 1]]

Bid(bidder, unit, bid) == [bidder |-> bidder, unit |-> unit, bid |-> bid]
Auction(site, units, bids) == [site |-> site, units |-> units, bids |-> bids]

Bids == {Bid(b, u, p) : b \in Bidders, u \in UnitIds, p \in Prices}

SeqsUpTo(S, n) == UNION {[1..k -> S] : k \in 0..n}

UnitLists ==
    {<<>>, <<unit_a>>, <<unit_b, unit_a>>, <<unit_b, unit_a, unit_b>>,
     <<unit_ab, unit_b, unit_a>>}

Auctions ==
    {Auction(s, us, bs) : s \in Sites, us \in UnitLists, bs \in SeqsUpTo(Bids, MaxBids)}

NoAuction == Auction("", <<>>, <<>>)

(***************************************************************************)
(* auction.rs: the resolver.                                               *)
(***************************************************************************)
\* Mutant: the check that the bid's unit is one of the auction's is left out.
is_valid_bid_AnyUnit(bid, a, site_config) == bid.bidder \in site_config.bidders

is_valid_bid(bid, a, site_config) ==
    /\ bid.unit \in Range(a.units)
    /\ bid.bidder \in site_config.bidders

\* Mutant: <= for <, a bid exactly at the floor is rejected.
BelowFloor_Inclusive(adjusted_bid_value, site_floor) == adjusted_bid_value <= site_floor

BelowFloor(adjusted_bid_value, site_floor) == adjusted_bid_value < site_floor

\* Mutant: >= for >, a later bid of equal adjusted value replaces the winner.
Replaces_OnTie(unit_winning_bids, unit, adjusted_bid_value) ==
    \/ unit \notin DOMAIN unit_winning_bids
    \/ adjusted_bid_value >= unit_winning_bids[unit].adjusted_bid_value

\* cur_winning_bid.is_none() || adjusted_bid_value > cur.adjusted_bid_value
Replaces(unit_winning_bids, unit, adjusted_bid_value) ==
    \/ unit \notin DOMAIN unit_winning_bids
    \/ adjusted_bid_value > unit_winning_bids[unit].adjusted_bid_value

\* WinningBid: `bid` is the reference &auction.bids[n], kept as the index n.
WinningBid(n, adjusted_bid_value) ==
    [bid |-> n, adjusted_bid_value |-> adjusted_bid_value]

\* BTreeMap::insert
Insert(m, k, v) == [x \in DOMAIN m \cup {k} |-> IF x = k THEN v ELSE m[x]]

\* One pass of the body of `for bid in &auction.bids`, for the n-th bid.
LoopBody(unit_winning_bids, n, a, config, site_config) ==
    LET bid == a.bids[n] IN
    IF ~is_valid_bid(bid, a, site_config) THEN unit_winning_bids
    ELSE IF bid.bidder \notin DOMAIN config.bidder_adjustments THEN unit_winning_bids
    ELSE LET adjusted_bid_value == bid.bid + config.bidder_adjustments[bid.bidder] IN
         IF BelowFloor(adjusted_bid_value, site_config.floor) THEN unit_winning_bids
         ELSE IF Replaces(unit_winning_bids, bid.unit, adjusted_bid_value)
              THEN Insert(unit_winning_bids, bid.unit, WinningBid(n, adjusted_bid_value))
              ELSE unit_winning_bids

\* unit_winning_bids after the first n bids.
RECURSIVE ScanBids(_, _, _, _)
ScanBids(a, config, site_config, n) ==
    IF n = 0 THEN <<>>
    ELSE LoopBody(ScanBids(a, config, site_config, n - 1), n, a, config, site_config)

\* Mutant: the map is walked from its greatest key down.
RECURSIVE KeysInOrder_Descending(_)
KeysInOrder_Descending(S) ==
    IF S = {} THEN <<>>
    ELSE LET k == CHOOSE x \in S : \A y \in S \ {x} : LexLess(y, x)
         IN  <<k>> \o KeysInOrder_Descending(S \ {k})

\* The keys of a BTreeMap<&String, _> in iteration order.
RECURSIVE KeysInOrder(_)
KeysInOrder(S) ==
    IF S = {} THEN <<>>
    ELSE LET k == CHOOSE x \in S : \A y \in S \ {x} : LexLess(x, y)
         IN  <<k>> \o KeysInOrder(S \ {k})

\* unit_winning_bids.values().map(|w| w.bid).collect()
CollectWinners(unit_winning_bids, a) ==
    LET keys == KeysInOrder(DOMAIN unit_winning_bids)
    IN  [k \in 1..Len(keys) |-> a.bids[unit_winning_bids[keys[k]].bid]]

\* Mutant: an unknown site is resolved with some configured site's rules.
SiteLookup_Fallback(a, config) ==
    IF a.site \in DOMAIN config.sites THEN <<config.sites[a.site]>>
    ELSE <<config.sites[CHOOSE s \in DOMAIN config.sites : TRUE]>>

\* config.sites.get(&auction.site): <<>> is None, <<c>> is Some(c).
SiteLookup(a, config) ==
    IF a.site \in DOMAIN config.sites THEN <<config.sites[a.site]>> ELSE <<>>

get_winning_bids(a, config) ==
    LET found == SiteLookup(a, config) IN
    IF found = <<>> THEN <<>>
    ELSE CollectWinners(ScanBids(a, config, found[1], Len(a.bids)), a)

(***************************************************************************)
(* auction.rs: serialize_float.  An f64 (finite, as a JSON number decodes) *)
(* is [neg, bits]: its sign and the set of the positions of the binary     *)
(* digits of its magnitude (position b weighs 2^b); a significand has 53   *)
(* digits, so the positions span at most F64_SPAN.  An integer is the same *)
(* record with positions >= 0.                                             *)
(***************************************************************************)
F64_SPAN == 52    \* f64: 53 significant binary digits
I64_BITS == 63    \* i64: magnitudes below 2^63, and -2^63

F64(neg, bits) == [neg |-> neg, bits |-> bits]

IsF64(bits) == \A x \in bits, y \in bits : x - y <= F64_SPAN

BitPositions == {-2, -1, 0, 1, 11, 62, 63, 64}

F64Values == {F64(n, bs) : n \in BOOLEAN, bs \in {b \in SUBSET BitPositions : IsF64(b)}}

\* f64::fract: the digits below the binary point, with the sign of f.
fract(x) == F64(x.neg, {b \in x.bits : b < 0})

\* == 0.0 (true of 0.0 and of -0.0)
IsZero(x) == x.bits = {}

I64_MAX == F64(FALSE, 0..(I64_BITS - 1))
I64_MIN == F64(TRUE, {I64_BITS})

\* `f as i64`: rounds toward zero and saturates at the bounds of i64.
as_i64(x) ==
    LET t == {b \in x.bits : b >= 0} IN
    IF ~x.neg /\ (\E b \in t : b >= I64_BITS) THEN I64_MAX
    ELSE IF x.neg /\ (\E b \in t : b >= I64_BITS) THEN I64_MIN
    ELSE F64(x.neg /\ t # {}, t)

\* serialize_i64 writes the decimal digits of the integer; serialize_f64
\* writes a literal that reads back as the same f64.
serialize_i64(i) == [kind |-> "integer", neg |-> i.neg, bits |-> i.bits]
serialize_f64(x) == [kind |-> "float", neg |-> x.neg, bits |-> x.bits]

serialize_float(x) ==
    IF IsZero(fract(x)) THEN serialize_i64(as_i64(x)) ELSE serialize_f64(x)

NoLiteral == [kind |-> "none", neg |-> FALSE, bits |-> {}]

\* The f64 a price of the resolver stands for: p halves.
RECURSIVE BitsOf(_, _)
BitsOf(n, pos) ==
    IF n = 0 THEN {}
    ELSE (IF n % 2 = 1 THEN {pos} ELSE {}) \cup BitsOf(n \div 2, pos + 1)

ToF64(p) == IF p < 0 THEN F64(TRUE, BitsOf(-p, -1)) ELSE F64(FALSE, BitsOf(p, -1))

\* #[derive(Serialize)] for Bid, with serialize_with on `bid`.
SerializeBid(bid) ==
    [bidder |-> bid.bidder, unit |-> bid.unit, bid |-> serialize_float(ToF64(bid.bid))]

\* Serialize for Vec<&Bid>: one output element.
SerializeWinners(bids) == [k \in 1..Len(bids) |-> SerializeBid(bids[k])]

(***************************************************************************)
(* main.rs: the input stream.  `shape` is what deserialize_seq finds at    *)
(* the top level, `elems` what next_element finds element by element, and  *)
(* `closed` whether the array's closing bracket follows the last element   *)
(* (FALSE: the stream is truncated).                                       *)
(***************************************************************************)
Decoded(a) == [kind |-> "auction", value |-> a]
Malformed == [kind |-> "malformed"]

PipelineAuctions ==
    {Auction("houseofcheese.com", <<unit_b, unit_a>>,
             <<Bid("BIDD", unit_b, 5), Bid("AUCT", unit_a, 5)>>),
     Auction("unknown.com", <<unit_b, unit_a>>,
             <<Bid("BIDD", unit_b, 5), Bid("AUCT", unit_a, 5)>>),
     Auction("houseofcheese.com", <<unit_a>>, <<Bid("BIDD", unit_a, 4)>>),
     Auction("houseofcheese.com", <<unit_a>>, <<>>)}

Elements == {Decoded(a) : a \in PipelineAuctions} \cup {Malformed}

Inputs ==
    {[shape |-> "array", elems |-> es, closed |-> c] :
        es \in SeqsUpTo(Elements, MaxInput), c \in BOOLEAN}
    \cup {[shape |-> "other", elems |-> <<>>, closed |-> FALSE]}

NoInput == [shape |-> "none", elems |-> <<>>, closed |-> FALSE]

\* Mutant: the Sender outlives a decoder thread that panicked.
SenderDropped_OnlyOnOk == pc_d = "done"

\* The Sender lives in the AuctionProcessor, which visit_seq and
\* deserialize_seq consume: it is dropped when the decoder thread's
\* deserialize_seq returns, with Ok or with Err (before unwrap panics).
SenderDropped == pc_d \in {"done", "panicked"}

\* The Receiver is a local of main: dropped when main returns.
ReceiverDropped == pc_m \in {"StreamClosed", "Failed"}

\* Mutant: the channel hands out its newest message first.
Recv_Newest(ch) == [msg |-> ch[Len(ch)], rest |-> SubSeq(ch, 1, Len(ch) - 1)]

\* Receiver::recv on a non-empty channel: the oldest message.
Recv(ch) == [msg |-> Head(ch), rest |-> Tail(ch)]

\* Sender::send
Send(ch, msg) == Append(ch, msg)

(***************************************************************************)
(* The decoder thread (main.rs:41-46).                                     *)
(***************************************************************************)
\* deserialize_seq: the top level must be an array.
DecoderOpen ==
    /\ pc_d = "start"
    /\ IF input.shape = "array"
       THEN pc_d' = "next" /\ UNCHANGED decode_failed
       ELSE pc_d' = "panicked" /\ decode_failed' = TRUE
    /\ UNCHANGED <<input, next_index, channel, held, pc_m, output>>
    /\ UNCHANGED <<resolver_vars, float_vars>>

\* One round of `while let Some(auction) = seq.next_element()? { send }`.
DecoderStep ==
    /\ pc_d = "next"
    /\ IF next_index < Len(input.elems)
       THEN LET e == input.elems[next_index + 1] IN
            IF e.kind = "malformed"
            THEN \* next_element returns Err: `?`, then unwrap panics
                 /\ pc_d' = "panicked"
                 /\ decode_failed' = TRUE
                 /\ UNCHANGED <<next_index, channel>>
            ELSE IF ReceiverDropped
            THEN \* send returns Err: its unwrap panics
                 /\ pc_d' = "panicked"
                 /\ next_index' = next_index + 1
                 /\ UNCHANGED <<decode_failed, channel>>
            ELSE /\ channel' = Send(channel, e.value)
                 /\ next_index' = next_index + 1
                 /\ UNCHANGED <<pc_d, decode_failed>>
       ELSE IF input.closed
            THEN \* next_element returns Ok(None): visit_seq returns Ok(())
                 /\ pc_d' = "done"
                 /\ UNCHANGED <<next_index, channel, decode_failed>>
            ELSE \* end of the stream inside the array
                 /\ pc_d' = "panicked"
                 /\ decode_failed' = TRUE
                 /\ UNCHANGED <<next_index, channel>>
    /\ UNCHANGED <<input, held, pc_m, output>>
    /\ UNCHANGED <<resolver_vars, float_vars>>

DecoderNext == DecoderOpen \/ DecoderStep

(***************************************************************************)
(* The main thread (main.rs:48-58).  Every write to the output may fail    *)
(* (an I/O error), and `?` then returns the error from main.               *)
(***************************************************************************)
\* serializer.serialize_seq(None)?
MainOpen ==
    /\ pc_m = "NotStarted"
    /\ \E ok \in BOOLEAN : pc_m' = IF ok THEN "StreamOpen" ELSE "Failed"
    /\ UNCHANGED <<input, next_index, pc_d, decode_failed, channel, held, output>>
    /\ UNCHANGED <<resolver_vars, float_vars>>

\* `for auction in receiver`: a message is there.
MainRecv ==
    /\ pc_m = "StreamOpen"
    /\ channel # <<>>
    /\ held' = <<Recv(channel).msg>>
    /\ channel' = Recv(channel).rest
    /\ pc_m' = "EncodeElement"
    /\ UNCHANGED <<input, next_index, pc_d, decode_failed, output>>
    /\ UNCHANGED <<resolver_vars, float_vars>>

\* The loop body: get_winning_bids, serialize_element(&winning_bids)?, and
\* the auction and its winners go out of scope.
MainEncode ==
    /\ pc_m = "EncodeElement"
    /\ \E ok \in BOOLEAN :
         IF ok
         THEN /\ output' = Append(output, SerializeWinners(get_winning_bids(held[1], Config)))
              /\ pc_m' = "StreamOpen"
         ELSE /\ pc_m' = "Failed"
              /\ UNCHANGED output
    /\ held' = <<>>
    /\ UNCHANGED <<input, next_index, pc_d, decode_failed, channel>>
    /\ UNCHANGED <<resolver_vars, float_vars>>

\* The channel is empty and hung up: the loop ends; seq_serializer.end().
MainEnd ==
    /\ pc_m = "StreamOpen"
    /\ channel = <<>>
    /\ SenderDropped
    /\ \E ok \in BOOLEAN : pc_m' = IF ok THEN "StreamClosed" ELSE "Failed"
    /\ UNCHANGED <<input, next_index, pc_d, decode_failed, channel, held, output>>
    /\ UNCHANGED <<resolver_vars, float_vars>>

MainNext == MainOpen \/ MainRecv \/ MainEncode \/ MainEnd

(***************************************************************************)
(* Direct calls.                                                           *)
(***************************************************************************)
Resolve ==
    /\ pc_r = "call"
    /\ winning_bids' = get_winning_bids(auction, Config)
    /\ pc_r' = "returned"
    /\ UNCHANGED <<auction, pipeline_vars, float_vars>>

SerializeFloat ==
    /\ pc_f = "call"
    /\ literal' = serialize_float(f)
    /\ pc_f' = "written"
    /\ UNCHANGED <<f, pipeline_vars, resolver_vars>>

(***************************************************************************)
(* Specifications.                                                         *)
(***************************************************************************)
NoPipeline ==
    /\ input = NoInput /\ next_index = 0 /\ pc_d = "idle" /\ decode_failed = FALSE
    /\ channel = <<>> /\ held = <<>> /\ pc_m = "idle" /\ output = <<>>

NoResolve == auction = NoAuction /\ winning_bids = <<>> /\ pc_r = "idle"

NoSerialize == f = F64(FALSE, {}) /\ literal = NoLiteral /\ pc_f = "idle"

InitPipeline ==
    /\ input \in Inputs /\ next_index = 0 /\ pc_d = "start" /\ decode_failed = FALSE
    /\ channel = <<>> /\ held = <<>> /\ pc_m = "NotStarted" /\ output = <<>>
    /\ NoResolve /\ NoSerialize

InitResolve ==
    /\ auction \in Auctions /\ winning_bids = <<>> /\ pc_r = "call"
    /\ NoPipeline /\ NoSerialize

InitSerialize ==
    /\ f \in F64Values /\ literal = NoLiteral /\ pc_f = "call"
    /\ NoPipeline /\ NoResolve

Init == InitPipeline \/ InitResolve \/ InitSerialize

PipelineNext == DecoderNext \/ MainNext

Next == PipelineNext \/ Resolve \/ SerializeFloat

Spec == Init /\ [][Next]_vars

\* The operating system schedules both threads.
FairSpec ==
    InitPipeline /\ [][PipelineNext]_vars /\ WF_vars(DecoderNext) /\ WF_vars(MainNext)

(***************************************************************************)
(* The vocabulary of the properties, stated from the configuration and the *)
(* auction alone (not through the resolver's code).                        *)
(***************************************************************************)
KnownSite(a) == a.site \in DOMAIN Config.sites

HasAdjustment(bid) == bid.bidder \in DOMAIN Config.bidder_adjustments

Adjusted(bid) == bid.bid + Config.bidder_adjustments[bid.bidder]

Floor(a) == Config.sites[a.site].floor

Eligible(a, bid) ==
    /\ \E n \in DOMAIN a.units : a.units[n] = bid.unit
    /\ bid.bidder \in Config.sites[a.site].bidders

\* The indices of the bids of unit u that survive: eligible, adjusted, not below the floor.
Surviving(a, u) ==
    {i \in DOMAIN a.bids :
        /\ a.bids[i].unit = u
        /\ Eligible(a, a.bids[i])
        /\ HasAdjustment(a.bids[i])
        /\ Adjusted(a.bids[i]) >= Floor(a)}

\* The earliest of the surviving bids of u with the greatest adjusted value.
Best(a, u) ==
    CHOOSE i \in Surviving(a, u) :
        \A j \in Surviving(a, u) :
            \/ Adjusted(a.bids[j]) < Adjusted(a.bids[i])
            \/ Adjusted(a.bids[j]) = Adjusted(a.bids[i]) /\ i <= j

WellFormed(in) ==
    /\ in.shape = "array"
    /\ in.closed
    /\ \A i \in DOMAIN in.elems : in.elems[i].kind = "auction"

MainReturned == pc_m \in {"StreamClosed", "Failed"}

\* C1: whenever decoding fails (malformed element, wrong top-level shape,
\* truncated stream) the run does not end in success: main never reaches
\* StreamClosed (the closing bracket written, Ok returned).
C1_DecodeFailureNeverSucceeds == decode_failed => pc_m # "StreamClosed"

\* C2: every written output element i is the serialized winner list of
\* get_winning_bids applied to input auction i, and a run over a well-formed
\* input that ends in StreamClosed has written one element per input auction:
\* nothing is dropped, duplicated or reordered.
C2_OutputMatchesInput ==
    /\ \A i \in DOMAIN output :
          /\ i <= Len(input.elems)
          /\ input.elems[i].kind = "auction"
          /\ output[i] = SerializeWinners(get_winning_bids(input.elems[i].value, Config))
    /\ (pc_m = "StreamClosed" /\ WellFormed(input)) => Len(output) = Len(input.elems)

\* C2's case: a run over two auctions with different winners has ended in
\* StreamClosed with both elements written.
C2_Witness ==
    /\ pc_m = "StreamClosed"
    /\ WellFormed(input)
    /\ Len(output) = 2
    /\ output[1] # output[2]

\* C3: at most one decoded auction is held that has not had its winners
\* encoded (in the channel or in main's loop variable).
C3_AtMostOneInFlight == Len(channel) + Len(held) <= 1

\* C4: on a configured site, every unit with a surviving bid has exactly one
\* bid in the result, and it is the surviving bid with the greatest adjusted
\* value, the earliest in auction.bids among those that share it.
C4_GreatestAdjustedEarliestWins ==
    (pc_r = "returned" /\ KnownSite(auction)) =>
        \A u \in UnitIds :
            Surviving(auction, u) # {} =>
                /\ \E k \in DOMAIN winning_bids :
                      winning_bids[k] = auction.bids[Best(auction, u)]
                /\ \A k1, k2 \in DOMAIN winning_bids :
                      (winning_bids[k1].unit = u /\ winning_bids[k2].unit = u) => k1 = k2

\* C4's case: two surviving bids of different bidders tie on the adjusted
\* value of one unit, and the earlier one is the result.
C4_Witness ==
    /\ pc_r = "returned"
    /\ KnownSite(auction)
    /\ \E u \in UnitIds : \E i, j \in Surviving(auction, u) :
          /\ i < j
          /\ auction.bids[i].bidder # auction.bids[j].bidder
          /\ Adjusted(auction.bids[i]) = Adjusted(auction.bids[j])
          /\ winning_bids = <<auction.bids[i]>>

\* C5: every returned bid is an element of auction.bids as it was given
\* (original price), its unit is in auction.units, its bidder is permitted on
\* the site and has an adjustment.
C5_WinnersAreEligibleInputBids ==
    pc_r = "returned" =>
        \A k \in DOMAIN winning_bids :
            /\ \E i \in DOMAIN auction.bids : winning_bids[k] = auction.bids[i]
            /\ KnownSite(auction)
            /\ Eligible(auction, winning_bids[k])
            /\ HasAdjustment(winning_bids[k])

\* C5's case: a bid won while another bid of the auction was ineligible or
\* had no adjustment.
C5_Witness ==
    /\ pc_r = "returned"
    /\ Len(winning_bids) = 1
    /\ \E i \in DOMAIN auction.bids :
          \/ ~Eligible(auction, auction.bids[i])
          \/ ~HasAdjustment(auction.bids[i])

\* C6: no returned bid has an adjusted value below the floor, and a bid
\* whose adjusted value equals the floor, when no other bid of its unit
\* survives, is returned.
C6_FloorIsInclusive ==
    (pc_r = "returned" /\ KnownSite(auction)) =>
        /\ \A k \in DOMAIN winning_bids :
              HasAdjustment(winning_bids[k]) => Adjusted(winning_bids[k]) >= Floor(auction)
        /\ \A i \in DOMAIN auction.bids :
              (/\ Eligible(auction, auction.bids[i])
               /\ HasAdjustment(auction.bids[i])
               /\ Adjusted(auction.bids[i]) = Floor(auction)
               /\ Surviving(auction, auction.bids[i].unit) = {i})
              => \E k \in DOMAIN winning_bids : winning_bids[k] = auction.bids[i]

\* C6's case: a bid exactly at the floor is returned, and the only bid of
\* another unit, eligible but below the floor, is not.
C6_Witness ==
    /\ pc_r = "returned"
    /\ KnownSite(auction)
    /\ Len(winning_bids) = 1
    /\ Adjusted(winning_bids[1]) = Floor(auction)
    /\ \E i \in DOMAIN auction.bids :
          /\ Eligible(auction, auction.bids[i])
          /\ HasAdjustment(auction.bids[i])
          /\ Adjusted(auction.bids[i]) < Floor(auction)
          /\ auction.bids[i].unit # winning_bids[1].unit

\* C7: the returned list is strictly ascending by unit identifier, in the
\* byte order of the strings (hence at most one bid per unit).
C7_StrictlyAscendingByUnit ==
    pc_r = "returned" =>
        \A k \in DOMAIN winning_bids :
            k < Len(winning_bids) => LexLess(winning_bids[k].unit, winning_bids[k + 1].unit)

\* C7's case: two winners whose bids were listed in descending unit order,
\* in an auction whose units list a unit twice.
C7_Witness ==
    /\ pc_r = "returned"
    /\ Len(winning_bids) = 2
    /\ Len(auction.bids) >= 2
    /\ LexLess(auction.bids[2].unit, auction.bids[1].unit)
    /\ \E m, n \in DOMAIN auction.units : m # n /\ auction.units[m] = auction.units[n]

\* C8: for an auction whose site is not configured get_winning_bids returns
\* the empty list, and the pipeline writes an empty list as that auction's
\* output element.
C8_UnknownSiteHasNoWinners ==
    /\ (pc_r = "returned" /\ ~KnownSite(auction)) => winning_bids = <<>>
    /\ \A i \in DOMAIN output :
          (/\ i <= Len(input.elems)
           /\ input.elems[i].kind = "auction"
           /\ ~KnownSite(input.elems[i].value))
          => output[i] = <<>>

\* C8's case: the pipeline wrote an empty list for an auction of an unknown
\* site that carries bids, and went on to write the next auction's winners.
C8_Witness ==
    /\ Len(output) = 2
    /\ input.elems[1].kind = "auction"
    /\ ~KnownSite(input.elems[1].value)
    /\ input.elems[1].value.bids # <<>>
    /\ output[1] = <<>>
    /\ output[2] # <<>>

\* C9: under fair scheduling of the two threads every run ends: main
\* returns, in StreamClosed or in Failed.
C9_RunTerminates == <>MainReturned

\* C9's case: main has returned after the decoder thread failed.
C9_Witness == MainReturned /\ pc_d = "panicked" /\ decode_failed /\ Len(output) >= 1

\* C10: a price with no fractional component is written as an integer
\* literal denoting the same number (also at magnitudes of 2^63 and beyond);
\* a price with a fractional component is written as a floating-point literal.
C10_WholePriceKeepsItsValue ==
    pc_f = "written" =>
        IF IsZero(fract(f))
        THEN /\ literal.kind = "integer"
             /\ literal.bits = f.bits
             /\ (literal.neg = f.neg \/ f.bits = {})
        ELSE literal.kind = "float"

====
